---- MODULE Spec2Model ----
(***************************************************************************)
(* Model of the trial segmentation of the VR-foraging NWB packaging        *)
(* capsule: DatasetProcessor.process (code/processing.py) and the          *)
(* timestamp helpers it rests on (code/helper.py).                         *)
(*                                                                         *)
(* Time is the dataset's single clock counted in milliseconds, so the      *)
(* 0.002 s odor pre-window of processing.py:261 is 2 ticks.  A table is    *)
(* the set (or, where order is consulted, the sequence) of its rows; a row *)
(* carries its index as the field ts.  Within one stream no two rows share *)
(* a timestamp in the inputs enumerated here.                              *)
(***************************************************************************)
EXTENDS Integers, Sequences, FiniteSets, TLC

\* ---------------------------------------------------------------- bounds
MaxTime == 3
MaxSites == 4
MaxRows == 2
MaxEvents == 2
MaxSeries == 6

\* ------------------------------------------------------- program constants
\* processing.py:261, the 2 ms window before a site's start
OdorWindow == 2
\* processing.py:186, the friction before the first site
InitialFriction == 0

Times == 0 .. MaxTime

\* np.nan; every timestamp and counter of the model is >= 0
NaN == 0 - 1

\* Python's None for has_waited_reward_delay (values are 0 / 1 otherwise)
None == 0 - 2

VARIABLES
    dataset,         \* the dataset as it is on disk (never changes)
    raise_on_error,  \* DatasetProcessor.raise_on_error
    tables,          \* the ActiveSite / ActivePatch / Block tables the streams hold in memory
    pc,              \* "new" | "scan" | "done": where process() is
    result,          \* "none" | "returned" | the exception process() ended with
    merged,          \* local: ActiveSite rows joined with patch and block
    signals,         \* locals: the canonical signals of lines 176-183
    i,               \* the loop variable of line 201
    current,         \* the running values of lines 186-195
    sites,           \* local: the list of records built so far
    q,               \* a call of get_closest_from_timestamp: its arguments and result
    call,            \* a call of slice_by_index or _parse_odor_onset: its arguments and result
    capsule          \* run_capsule.run(): where it is, the trials it holds, the files it wrote

vars == <<dataset, raise_on_error, tables, pc, result, merged, signals, i, current, sites, q,
          call, capsule>>

\* ------------------------------------------------------------- utilities
Min(S) == CHOOSE x \in S : \A y \in S : x <= y

Max(S) == CHOOSE x \in S : \A y \in S : x >= y

Abs(x) == IF x < 0 THEN 0 - x ELSE x

\* the rows of a table in index order
RECURSIVE SortRows(_)
SortRows(S) ==
    IF S = {} THEN <<>>
    ELSE LET r == CHOOSE x \in S : \A y \in S : x.ts <= y.ts
         IN  <<r>> \o SortRows(S \ {r})

Range(s) == {s[k] : k \in 1 .. Len(s)}

\* ---------------------------------------------------------------- helper.py
\* the slice with the end bound included
slice_by_index_closed(df, start_time, end_time) ==
    {r \in df : r.ts >= start_time /\ r.ts <= end_time}

\* df[(df.index >= start_time) & (df.index < end_time)]
slice_by_index(df, start_time, end_time) ==
    {r \in df : r.ts >= start_time /\ r.ts < end_time}

\* --------------------------------------------------------------- the inputs
\* ActiveSite payloads: a reward site names an odor, an inter-site does not
SiteKinds ==
    { [label |-> "RewardSite", odor_specification |-> TRUE],
      [label |-> "InterSite", odor_specification |-> FALSE] }

\* semantic versions <<major, minor, patch>> of the datasets enumerated
Versions == { <<0, 6, 0>>, <<0, 7, 0>> }

\* the software-event table with one row per timestamp of S, payload f[t]
EventTable(S, f) ==
    [ columns |-> {"data"},
      rows |-> SortRows({ [ts |-> t, data |-> f[t]] : t \in S }) ]

SiteTables ==
    UNION { { EventTable(S, f) : f \in [S -> SiteKinds] } :
            S \in { X \in SUBSET Times : Cardinality(X) <= MaxSites } }

\* ActivePatch / Block tables: the payload is not consulted by the scan
BoundaryTables ==
    { EventTable(S, [t \in S |-> [state_index |-> 0]]) :
      S \in { X \in SUBSET Times : Cardinality(X) <= MaxRows } }

\* the one boundary row at time 0 that precedes every site
BoundaryAtZero == { EventTable({0}, [t \in {0} |-> [state_index |-> 0]]) }

\* raw rows of the harp registers the scan slices first: speaker, water
\* valve and brake
HarpRows ==
    { [stream |-> "PwmStart", ts |-> t, MessageType |-> "WRITE", value |-> 1] : t \in Times }
    \cup { [stream |-> "OutputSet", ts |-> t, MessageType |-> "WRITE", value |-> 1] : t \in Times }
    \cup { [stream |-> "BrakeCurrentSetPoint", ts |-> t, MessageType |-> "WRITE", value |-> v] :
           t \in Times, v \in {1, 2} }
    \cup { [stream |-> "BrakeCurrentSetPoint", ts |-> t, MessageType |-> "READ", value |-> 3] :
           t \in Times }

\* raw rows of the odor valve, the water valve and the reward streams; value
\* is the EndValve0 / SupplyPort0 bit, the GiveReward payload (NaN: null) or
\* the IsSuccessfulWait flag
RewardRows ==
    { [stream |-> "OutputSet", ts |-> t, MessageType |-> "WRITE", value |-> 1] : t \in Times }
    \cup { [stream |-> "EndValveState", ts |-> t, MessageType |-> "WRITE", value |-> v] :
           t \in Times, v \in {0, 1} }
    \cup { [stream |-> "GiveReward", ts |-> t, MessageType |-> "EVENT", value |-> v] :
           t \in Times, v \in {NaN, 0, 1} }
    \cup { [stream |-> "WaitRewardOutcome", ts |-> t, MessageType |-> "EVENT", value |-> v] :
           t \in Times, v \in {0, 1} }

\* at most MaxEvents rows of U, no two of one stream at one timestamp
RECURSIVE UpTo(_, _)
UpTo(U, n) ==
    IF n = 0 THEN { {} }
    ELSE LET P == UpTo(U, n - 1) IN P \cup { E \cup {e} : E \in P, e \in U }

EventSets(U) ==
    { E \in UpTo(U, MaxEvents) :
        \A a, b \in E : (a.stream = b.stream /\ a.ts = b.ts) => a = b }

StreamRows(E, name) ==
    { [ts |-> e.ts, MessageType |-> e.MessageType, value |-> e.value] :
      e \in { x \in E : x.stream = name } }

Dataset(st, pt, bt, E, ver, miss) ==
    [ version |-> ver,
      missing |-> miss,
      ActiveSite |-> st,
      ActivePatch |-> pt,
      Block |-> bt,
      PwmStart |-> StreamRows(E, "PwmStart"),
      OutputSet |-> StreamRows(E, "OutputSet"),
      EndValveState |-> StreamRows(E, "EndValveState"),
      BrakeCurrentSetPoint |-> StreamRows(E, "BrakeCurrentSetPoint"),
      GiveReward |-> StreamRows(E, "GiveReward"),
      WaitRewardOutcome |-> StreamRows(E, "WaitRewardOutcome") ]

\* ---------------------------------------------- processing.py, the extractors
SemverLess(a, b) ==
    \/ a[1] < b[1]
    \/ a[1] = b[1] /\ a[2] < b[2]
    \/ a[1] = b[1] /\ a[2] = b[2] /\ a[3] < b[3]

\* rows marking a write with the PwmDO2 bit asserted
_parse_speaker_choice_feedback(ds) ==
    { r \in ds.PwmStart : r.MessageType = "WRITE" /\ r.value = 1 }

\* rows marking a write with the SupplyPort0 bit asserted
_parse_water_delivery(ds) ==
    { r \in ds.OutputSet : r.MessageType = "WRITE" /\ r.value = 1 }

\* every write with EndValve0 asserted
_parse_odor_onset_asserted(ds) ==
    { r \in ds.EndValveState : r.MessageType = "WRITE" /\ r.value = 1 }

\* the writes with EndValve0 asserted and not asserted in the write before
_parse_odor_onset(ds) ==
    LET w == SortRows({ r \in ds.EndValveState : r.MessageType = "WRITE" })
    IN  { w[k] : k \in { j \in 1 .. Len(w) :
                           w[j].value = 1 /\ (j = 1 \/ w[j - 1].value = 0) } }

_parse_reward_metadata(ds) == ds.GiveReward

_parse_friction(ds) ==
    { r \in ds.BrakeCurrentSetPoint : r.MessageType = "WRITE" }

\* FileNotFoundError on load gives the empty series
_parse_wait_reward_outcome(ds) ==
    IF "WaitRewardOutcome" \in ds.missing THEN {} ELSE ds.WaitRewardOutcome

\* the channel count returned for every version
get_olfactometer_channel_count_default(ds) == "ok"

get_olfactometer_channel_count(ds) ==
    IF SemverLess(ds.version, <<0, 7, 0>>) THEN "ok" ELSE "NotImplementedError"

\* ------------------------------------------- processing.py, the structural join
\* table["name"] = range(len(table)), done in place on the stream's table
AddCount(table, name) ==
    [ columns |-> table.columns \cup {name},
      rows |-> [ k \in 1 .. Len(table.rows) |->
                   [ ts |-> table.rows[k].ts,
                     data |-> table.rows[k].data,
                     count |-> k - 1 ] ] ]

\* pd.merge_asof(direction="backward"): the count of the last row of the right
\* table at or before t, NaN when there is none
AsofCount(right, t) ==
    LET at == { k \in 1 .. Len(right.rows) : right.rows[k].ts <= t }
    IN  IF at = {} THEN NaN ELSE right.rows[Max(at)].count

Merge(odor_sites, patches, blocks) ==
    [ k \in 1 .. Len(odor_sites.rows) |->
        [ ts |-> odor_sites.rows[k].ts,
          data |-> odor_sites.rows[k].data,
          patch_count |-> AsofCount(patches, odor_sites.rows[k].ts),
          block_count |-> AsofCount(blocks, odor_sites.rows[k].ts) ] ]

\* line 165 subscripts the joined patch payload of every row; a row that
\* found no patch holds NaN there
PatchIndexFails(m) == \E k \in 1 .. Len(m) : m[k].patch_count = NaN

unique_site_labels(m) == { m[k].data.label : k \in 1 .. Len(m) }

\* lines 186-195
InitialCurrent(m) ==
    [ friction |-> InitialFriction,
      block_idx |-> 0,
      patch_idx |-> 0,
      patch_in_block_idx |-> 0,
      site_in_patch_idx |-> 0,
      site_in_block_idx |-> 0,
      site_by_type_in_patch_counter |-> [ l \in unique_site_labels(m) |-> 0 ] ]

\* ------------------------------------------------ processing.py, the scan body
\* the names line 224 can resolve: the locals process() has assigned by then
\* and the globals of the module (line 180, which would bind
\* patch_state_at_reward, is commented out)
BoundNames ==
    { "self", "dataset", "odor_sites", "patches", "blocks", "merged",
      "choice_feedback", "water_delivery", "reward_metadata", "odor_onset",
      "friction", "olfactometer_channel_count", "wait_reward_outcome",
      "current_friction", "current_block_idx", "current_patch_idx",
      "current_patch_in_block_idx", "current_site_in_patch_idx",
      "current_site_in_block_idx", "unique_site_labels",
      "site_by_type_in_patch_counter", "sites", "i", "this_timestamp",
      "next_timestamp", "this_site", "this_patch", "site_choice_feedback",
      "site_water_delivery", "site_odor_onset", "this_friction",
      "logging", "t", "aind_behavior_vr_foraging", "contraqctor", "np", "pd",
      "semver", "PydanticModel", "BaseModel", "Site", "slice_by_index",
      "logger", "DatasetProcessorError", "DatasetProcessor" }

Lookup(name) == IF name \in BoundNames THEN "ok" ELSE "NameError"

\* the asserts of lines 213 and 216 dropped
AtMostOneUnchecked(s) == TRUE

\* the condition of the asserts of lines 213 and 216
AtMostOne(s) == Cardinality(s) <= 1

\* s.index[0]
FirstIndex(s) == Min({ r.ts : r \in s })

\* s.values[-1]
LastValue(s) == (CHOOSE r \in s : \A y \in s : y.ts <= r.ts).value

\* lines 220-222
StickyFriction(current_friction, this_friction) ==
    IF this_friction # {} THEN LastValue(this_friction) ELSE current_friction

\* Python's != on floats: NaN differs from everything, itself included
NotEqual(a, b) == a = NaN \/ b = NaN \/ a # b

\* lines 232-253
Counters(cur, row) ==
    LET inc == [cur EXCEPT !.site_in_patch_idx = @ + 1,
                           !.site_in_block_idx = @ + 1]
        p   == IF NotEqual(row.patch_count, inc.patch_idx)
               THEN [inc EXCEPT !.patch_idx = row.patch_count,
                                !.site_in_patch_idx = 0,
                                !.patch_in_block_idx = @ + 1,
                                !.site_by_type_in_patch_counter =
                                    [l \in DOMAIN @ |-> 0]]
               ELSE inc
        b   == IF NotEqual(row.block_count, p.block_idx)
               THEN [p EXCEPT !.block_idx = row.block_count,
                              !.patch_in_block_idx = 0,
                              !.site_in_block_idx = 0]
               ELSE p
    IN  [b EXCEPT !.site_by_type_in_patch_counter[row.data.label] = @ + 1]

\* lines 257-273
OdorOnsetTime(odor_onset, site_odor_onset, this_site, this_timestamp, roe) ==
    IF site_odor_onset = {} /\ this_site.odor_specification
    THEN LET odor_onset_before_site ==
                 { r \in odor_onset :
                     r.ts < this_timestamp /\ r.ts >= this_timestamp - OdorWindow }
         IN  IF odor_onset_before_site = {}
             THEN IF roe THEN [error |-> "DatasetProcessorError", time |-> NaN]
                         ELSE [error |-> "none", time |-> NaN]
             ELSE [error |-> "none", time |-> this_timestamp]
    ELSE [error |-> "none",
          time |-> IF site_odor_onset # {} THEN FirstIndex(site_odor_onset) ELSE NaN]

\* reward_metadata_sliced["data"].fillna(0)
FillNa0(v) == IF v = NaN THEN 0 ELSE v

\* lines 275-294
RewardOnsetTime(reward_metadata_sliced, site_water_delivery, roe) ==
    IF reward_metadata_sliced = {}
       \/ \A r \in reward_metadata_sliced : FillNa0(r.value) = 0
    THEN [error |-> "none", time |-> NaN]
    ELSE IF Cardinality(site_water_delivery) = 0
         THEN IF roe THEN [error |-> "DatasetProcessorError", time |-> NaN]
                     ELSE [error |-> "none", time |-> NaN]
         ELSE [error |-> "none", time |-> FirstIndex(site_water_delivery)]

\* lines 296-301
HasWaitedRewardDelay(wait_reward_outcome_sliced) ==
    IF wait_reward_outcome_sliced # {}
    THEN (CHOOSE r \in wait_reward_outcome_sliced :
              \A y \in wait_reward_outcome_sliced : r.ts <= y.ts).value
    ELSE None

\* one pass of the loop body for i = k: the exception it ends with ("none":
\* it reaches line 338), the running values it leaves, the record it appends
ScanBody(cur, m, sig, roe, k) ==
    LET this_timestamp == m[k + 1].ts
        next_timestamp == m[k + 2].ts
        this_site == m[k + 1].data
        site_choice_feedback ==
            slice_by_index(sig.choice_feedback, this_timestamp, next_timestamp)
        site_water_delivery ==
            slice_by_index(sig.water_delivery, this_timestamp, next_timestamp)
        site_odor_onset ==
            slice_by_index(sig.odor_onset, this_timestamp, next_timestamp)
        this_friction ==
            slice_by_index(sig.friction, this_timestamp, next_timestamp)
        withFriction ==
            [cur EXCEPT !.friction = StickyFriction(@, this_friction)]
        counted == Counters(withFriction, m[k + 1])
        choice_time ==
            IF site_choice_feedback # {} THEN FirstIndex(site_choice_feedback) ELSE NaN
        odor == OdorOnsetTime(sig.odor_onset, site_odor_onset, this_site,
                              this_timestamp, roe)
        reward ==
            RewardOnsetTime(
                slice_by_index(sig.reward_metadata, this_timestamp, next_timestamp),
                site_water_delivery, roe)
        site ==
            [ start_time |-> this_timestamp,
              stop_time |-> next_timestamp,
              site_label |-> this_site.label,
              friction |-> counted.friction,
              patch_index |-> counted.patch_idx,
              patch_in_block_index |-> counted.patch_in_block_idx,
              site_index |-> k,
              site_in_patch_index |-> counted.site_in_patch_idx,
              site_in_block_index |-> counted.site_in_block_idx,
              site_by_type_in_patch_index |->
                  counted.site_by_type_in_patch_counter[this_site.label] - 1,
              odor_onset_time |-> odor.time,
              reward_onset_time |-> reward.time,
              has_reward |-> reward.time # NaN,
              choice_cue_time |-> choice_time,
              has_choice |-> site_choice_feedback # {},
              has_waited_reward_delay |->
                  HasWaitedRewardDelay(
                      slice_by_index(sig.wait_reward_outcome,
                                     this_timestamp, next_timestamp)),
              block_index |-> m[k + 1].block_count ]
    IN  IF ~AtMostOne(site_choice_feedback)
        THEN [error |-> "AssertionError", current |-> cur, site |-> <<>>]
        ELSE IF ~AtMostOne(site_water_delivery)
        THEN [error |-> "AssertionError", current |-> cur, site |-> <<>>]
        ELSE IF Lookup("patch_state_at_reward") # "ok"
        THEN [error |-> "NameError", current |-> withFriction, site |-> <<>>]
        ELSE IF odor.error # "none"
        THEN [error |-> odor.error, current |-> counted, site |-> <<>>]
        ELSE IF reward.error # "none"
        THEN [error |-> reward.error, current |-> counted, site |-> <<>>]
        ELSE [error |-> "none", current |-> counted, site |-> <<site>>]

\* ------------------------------------------------------------- the process
NoSignals ==
    [ choice_feedback |-> {}, water_delivery |-> {}, reward_metadata |-> {},
      odor_onset |-> {}, friction |-> {}, wait_reward_outcome |-> {} ]

NoCall ==
    [mode |-> "none", index |-> <<>>, target |-> 0,
     state |-> "none", error |-> "none", idx |-> 0, value |-> 0]

\* no helper under call, and process() called outside run_capsule
NoHelper == [fn |-> "none", state |-> "none"]

NotRun == [pc |-> "none", trials |-> <<>>, output |-> {}]

\* DatasetProcessor(ds, raise_on_error=roe) on a dataset whose boundary
\* streams are loaded; process() not yet called
Processor(ds, roe) ==
    /\ dataset = ds
    /\ raise_on_error = roe
    /\ tables = [ ActiveSite |-> ds.ActiveSite,
                  ActivePatch |-> ds.ActivePatch,
                  Block |-> ds.Block ]
    /\ pc = "new"
    /\ result = "none"
    /\ merged = <<>>
    /\ signals = NoSignals
    /\ i = 0
    /\ current = InitialCurrent(<<>>)
    /\ sites = <<>>
    /\ q = NoCall
    /\ call = NoHelper

Constructed(ds, roe) == Processor(ds, roe) /\ capsule = NotRun

\* Spec: every layout of sites, patches and blocks; no other events
Init ==
    \E st \in SiteTables, pt \in BoundaryTables, bt \in BoundaryTables,
       ver \in Versions, miss \in { {}, {"WaitRewardOutcome"} },
       roe \in BOOLEAN :
        Constructed(Dataset(st, pt, bt, {}, ver, miss), roe)

\* lines 149-195 of process()
Setup ==
    /\ pc = "new"
    /\ LET patches == AddCount(tables.ActivePatch, "patch_count")
           blocks == AddCount(tables.Block, "block_count")
           m == Merge(tables.ActiveSite, patches, blocks)
           failure == IF PatchIndexFails(m) THEN "TypeError"
                      ELSE get_olfactometer_channel_count(dataset)
       IN  /\ tables' = [tables EXCEPT !.ActivePatch = patches, !.Block = blocks]
           /\ IF failure # "ok"
              THEN /\ pc' = "done"
                   /\ result' = failure
                   /\ UNCHANGED <<merged, signals, current>>
              ELSE /\ pc' = "scan"
                   /\ result' = "none"
                   /\ merged' = m
                   /\ signals' =
                        [ choice_feedback |-> _parse_speaker_choice_feedback(dataset),
                          water_delivery |-> _parse_water_delivery(dataset),
                          reward_metadata |-> _parse_reward_metadata(dataset),
                          odor_onset |-> _parse_odor_onset(dataset),
                          friction |-> _parse_friction(dataset),
                          wait_reward_outcome |-> _parse_wait_reward_outcome(dataset) ]
                   /\ current' = InitialCurrent(m)
    /\ UNCHANGED <<dataset, raise_on_error, i, sites, q, call, capsule>>

\* one iteration of the loop of line 201
ScanSite ==
    /\ pc = "scan"
    /\ i < Len(merged) - 1
    /\ LET body == ScanBody(current, merged, signals, raise_on_error, i)
       IN  /\ current' = body.current
           /\ sites' = sites \o body.site
           /\ IF body.error # "none"
              THEN pc' = "done" /\ result' = body.error /\ i' = i
              ELSE pc' = "scan" /\ result' = "none" /\ i' = i + 1
    /\ UNCHANGED <<dataset, raise_on_error, tables, merged, signals, q, call, capsule>>

\* line 339
Return ==
    /\ pc = "scan"
    /\ ~(i < Len(merged) - 1)
    /\ pc' = "done"
    /\ result' = "returned"
    /\ UNCHANGED <<dataset, raise_on_error, tables, merged, signals, i, current, sites, q, call, capsule>>

Next == Setup \/ ScanSite \/ Return

Spec == Init /\ [][Next]_vars

\* SpecScan: every layout of sites under one patch and one block, with up to
\* MaxEvents speaker, water-valve and brake rows
InitScan ==
    \E st \in SiteTables, pt \in BoundaryAtZero, bt \in BoundaryAtZero,
       E \in EventSets(HarpRows), roe \in BOOLEAN :
        Constructed(Dataset(st, pt, bt, E, <<0, 6, 0>>, {}), roe)

SpecScan == InitScan /\ [][Next]_vars

\* SpecReward: the same layouts with up to MaxEvents odor-valve, water-valve,
\* GiveReward and WaitRewardOutcome rows
InitReward ==
    \E st \in SiteTables, pt \in BoundaryAtZero, bt \in BoundaryAtZero,
       E \in EventSets(RewardRows), miss \in { {}, {"WaitRewardOutcome"} },
       roe \in BOOLEAN :
        Constructed(Dataset(st, pt, bt, E, <<0, 6, 0>>, miss), roe)

SpecReward == InitReward /\ [][Next]_vars

\* ------------------------------------------------- run_capsule.py, the run
\* run() does not catch what process() raises (line 105 stands in no try
\* block), so every exception of process() ends the run
PropagatesNever(res) == FALSE

Propagates(res) == res \notin { "none", "returned" }

\* lines 104-105: the processor is built with raise_on_error=False and
\* process() is called; nothing has been written so far
InitCapsule ==
    \E st \in SiteTables, pt \in BoundaryTables, bt \in BoundaryAtZero,
       ver \in Versions :
        /\ Processor(Dataset(st, pt, bt, {}, ver, {}), FALSE)
        /\ capsule = [pc |-> "process", trials |-> <<>>, output |-> {}]

\* line 105, process() raised: the exception leaves run()
ProcessRaises ==
    /\ capsule.pc = "process"
    /\ pc = "done"
    /\ Propagates(result)
    /\ capsule' = [capsule EXCEPT !.pc = "failed"]
    /\ UNCHANGED <<dataset, raise_on_error, tables, pc, result, merged, signals,
                   i, current, sites, q, call>>

\* lines 108-164: the NWB file is built in memory from the streams and one
\* trial is added per record process() returned
BuildNwb ==
    /\ capsule.pc = "process"
    /\ pc = "done"
    /\ ~Propagates(result)
    /\ capsule' = [capsule EXCEPT !.pc = "built", !.trials = sites]
    /\ UNCHANGED <<dataset, raise_on_error, tables, pc, result, merged, signals,
                   i, current, sites, q, call>>

\* lines 166-177
WriteZarr ==
    /\ capsule.pc = "built"
    /\ capsule' = [capsule EXCEPT !.pc = "written",
                                  !.output = @ \cup {"behavior.nwb.zarr"}]
    /\ UNCHANGED <<dataset, raise_on_error, tables, pc, result, merged, signals,
                   i, current, sites, q, call>>

\* lines 179-195
WriteDataProcess ==
    /\ capsule.pc = "written"
    /\ capsule' = [capsule EXCEPT !.pc = "finished",
                                  !.output = @ \cup {"data_process.json"}]
    /\ UNCHANGED <<dataset, raise_on_error, tables, pc, result, merged, signals,
                   i, current, sites, q, call>>

NextCapsule ==
    \/ Setup \/ ScanSite \/ Return
    \/ ProcessRaises \/ BuildNwb \/ WriteZarr \/ WriteDataProcess

SpecCapsule == InitCapsule /\ [][NextCapsule]_vars

\* ------------------------------------------- helper.py, the nearest lookup
\* np.searchsorted(a, v, side="left"): the number of entries below v
SearchSortedLeft(a, v) == Cardinality({ k \in 1 .. Len(a) : a[k] < v })

\* side="right" taken as side="left"
SearchSortedRightAsLeft(a, v) == Cardinality({ k \in 1 .. Len(a) : a[k] < v })

\* np.searchsorted(a, v, side="right"): the number of entries at or below v
SearchSortedRight(a, v) == Cardinality({ k \in 1 .. Len(a) : a[k] <= v })

\* np.clip(x, lo, hi)
Clip(x, lo, hi) == IF x < lo THEN lo ELSE IF x > hi THEN hi ELSE x

\* line 31 with the comparison strict
UseLeftStrict(left_diff, right_diff) == left_diff < right_diff

\* line 31
UseLeft(left_diff, right_diff) == left_diff <= right_diff

\* lines 21-41 for one timestamp; idx is the 0-based position selected and
\* value the entry of df.index there
get_closest_from_timestamp(timestamp, df_index, search_mode) ==
    LET n == Len(df_index)
        At(idx) == [error |-> "none", idx |-> idx, value |-> df_index[idx + 1]]
    IN  IF search_mode = "closest"
        THEN LET idx_left0 == SearchSortedLeft(df_index, timestamp)
                 idx_right == Clip(idx_left0 - 1, 0, n - 1)
                 idx_left == Clip(idx_left0, 0, n - 1)
                 left_diff == Abs(df_index[idx_left + 1] - timestamp)
                 right_diff == Abs(df_index[idx_right + 1] - timestamp)
             IN  IF UseLeft(left_diff, right_diff) THEN At(idx_left) ELSE At(idx_right)
        ELSE IF search_mode = "next"
        THEN At(Clip(SearchSortedLeft(df_index, timestamp), 0, n - 1))
        ELSE IF search_mode = "previous"
        THEN At(Clip(SearchSortedRight(df_index, timestamp) - 1, 0, n - 1))
        ELSE [error |-> "ValueError", idx |-> 0, value |-> 0]

\* the sorted, non-empty indices of up to MaxSites entries
RECURSIVE SortedIndices(_)
SortedIndices(n) ==
    IF n = 0 THEN { <<>> }
    ELSE LET P == SortedIndices(n - 1)
         IN  P \cup { Append(s, v) : s \in { x \in P : Len(x) = n - 1 },
                                     v \in Times }

IsSorted(s) == \A k \in 1 .. Len(s) - 1 : s[k] <= s[k + 1]

SearchModes == { "closest", "next", "previous", "nearest" }

\* SpecClosest: one call of get_closest_from_timestamp per behaviour; targets
\* range from below the first possible entry to above the last
InitClosest ==
    /\ \E ds \in { Dataset(EventTable({}, <<>>), EventTable({}, <<>>),
                           EventTable({}, <<>>), {}, <<0, 6, 0>>, {}) } :
          /\ dataset = ds
          /\ tables = [ ActiveSite |-> ds.ActiveSite,
                        ActivePatch |-> ds.ActivePatch,
                        Block |-> ds.Block ]
    /\ raise_on_error = TRUE
    /\ pc = "helper"
    /\ result = "none"
    /\ merged = <<>>
    /\ signals = NoSignals
    /\ i = 0
    /\ current = InitialCurrent(<<>>)
    /\ sites = <<>>
    /\ call = NoHelper
    /\ capsule = NotRun
    /\ \E s \in { x \in SortedIndices(MaxSites) : Len(x) > 0 /\ IsSorted(x) },
          target \in (0 - 1) .. (MaxTime + 1), mode \in SearchModes :
          q = [mode |-> mode, index |-> s, target |-> target,
               state |-> "called", error |-> "none", idx |-> 0, value |-> 0]

CallClosest ==
    /\ pc = "helper"
    /\ q.state = "called"
    /\ LET r == get_closest_from_timestamp(q.target, q.index, q.mode)
       IN  q' = [q EXCEPT !.state = "returned", !.error = r.error,
                          !.idx = r.idx, !.value = r.value]
    /\ UNCHANGED <<dataset, raise_on_error, tables, pc, result, merged, signals,
                   i, current, sites, call, capsule>>

NextClosest == CallClosest

SpecClosest == InitClosest /\ [][NextClosest]_vars

\* --------------------------------------------------- helper.py, the slices
\* the table whose index is s: row k carries s[k]; rows may share a timestamp
\* and need not be in order
IndexedRows(s) == { [ts |-> s[k], row |-> k] : k \in 1 .. Len(s) }

EmptyDataset ==
    Dataset(EventTable({}, <<>>), EventTable({}, <<>>), EventTable({}, <<>>),
            {}, <<0, 6, 0>>, {})

\* a helper is called on its own: process() and run_capsule are not running
HelperOnly(ds) ==
    /\ dataset = ds
    /\ tables = [ ActiveSite |-> ds.ActiveSite,
                  ActivePatch |-> ds.ActivePatch,
                  Block |-> ds.Block ]
    /\ raise_on_error = TRUE
    /\ pc = "helper"
    /\ result = "none"
    /\ merged = <<>>
    /\ signals = NoSignals
    /\ i = 0
    /\ current = InitialCurrent(<<>>)
    /\ sites = <<>>
    /\ q = NoCall
    /\ capsule = NotRun

\* SpecSlice: the three slices [a, b), [b, c) and [a, c) of one table, for
\* bounds from below the first possible timestamp to above the last
InitSlice ==
    /\ HelperOnly(EmptyDataset)
    /\ \E s \in SortedIndices(MaxRows + 1),
          a \in (0 - 1) .. (MaxTime + 1), b \in (0 - 1) .. (MaxTime + 1),
          c \in (0 - 1) .. (MaxTime + 1) :
          /\ a <= b /\ b <= c
          /\ call = [fn |-> "slice_by_index", state |-> "called",
                     df |-> IndexedRows(s), a |-> a, b |-> b, c |-> c,
                     ab |-> {}, bc |-> {}, ac |-> {}]

CallSlice ==
    /\ pc = "helper"
    /\ call.fn = "slice_by_index"
    /\ call.state = "called"
    /\ call' = [call EXCEPT !.state = "returned",
                            !.ab = slice_by_index(call.df, call.a, call.b),
                            !.bc = slice_by_index(call.df, call.b, call.c),
                            !.ac = slice_by_index(call.df, call.a, call.c)]
    /\ UNCHANGED <<dataset, raise_on_error, tables, pc, result, merged, signals,
                   i, current, sites, q, capsule>>

NextSlice == CallSlice

SpecSlice == InitSlice /\ [][NextSlice]_vars

\* ------------------------------------- processing.py, the odor-valve series
\* EndValveState rows at the timestamps 1 .. Len(s); s[k] gives the message
\* type and the EndValve0 bit of row k
SeriesRows(s) ==
    { [stream |-> "EndValveState", ts |-> k,
       MessageType |-> s[k].MessageType, value |-> s[k].value] :
      k \in 1 .. Len(s) }

ValveSeries ==
    UNION { [1 .. n -> [MessageType : {"WRITE", "READ"}, value : {0, 1}]] :
            n \in 0 .. MaxSeries }

\* SpecOnset: _parse_odor_onset on every valve series of up to MaxSeries rows
InitOnset ==
    \E s \in ValveSeries :
        /\ HelperOnly(Dataset(EventTable({}, <<>>), EventTable({}, <<>>),
                              EventTable({}, <<>>), SeriesRows(s),
                              <<0, 6, 0>>, {}))
        /\ call = [fn |-> "_parse_odor_onset", state |-> "called", out |-> {}]

CallOnset ==
    /\ pc = "helper"
    /\ call.fn = "_parse_odor_onset"
    /\ call.state = "called"
    /\ call' = [call EXCEPT !.state = "returned",
                            !.out = _parse_odor_onset(dataset)]
    /\ UNCHANGED <<dataset, raise_on_error, tables, pc, result, merged, signals,
                   i, current, sites, q, capsule>>

NextOnset == CallOnset

SpecOnset == InitOnset /\ [][NextOnset]_vars

\* ------------------------------------------------- the dataset, as the claims
\* ------------------------------------------------- speak of it
Done == pc = "done"

Returned == pc = "done" /\ result = "returned"

SiteRows == dataset.ActiveSite.rows

NumSites == Len(SiteRows)

\* the intervals the scan is to cover, numbered from 0
Intervals == 0 .. NumSites - 2

StartOf(k) == SiteRows[k + 1].ts

EndOf(k) == SiteRows[k + 2].ts

InInterval(rows, k) == { r \in rows : StartOf(k) <= r.ts /\ r.ts < EndOf(k) }

ChoiceEvents == { r \in dataset.PwmStart : r.MessageType = "WRITE" /\ r.value = 1 }

WaterEvents == { r \in dataset.OutputSet : r.MessageType = "WRITE" /\ r.value = 1 }

FrictionEvents == { r \in dataset.BrakeCurrentSetPoint : r.MessageType = "WRITE" }

\* every site has a patch and a block at or before it, and the version is one
\* the olfactometer logic supports
Structured ==
    /\ dataset.version \in { <<0, 6, 0>> }
    /\ \A k \in 1 .. NumSites :
         /\ \E p \in Range(dataset.ActivePatch.rows) : p.ts <= SiteRows[k].ts
         /\ \E b \in Range(dataset.Block.rows) : b.ts <= SiteRows[k].ts

MultipleChoice(k) == Cardinality(InInterval(ChoiceEvents, k)) > 1

MultipleWater(k) == Cardinality(InInterval(WaterEvents, k)) > 1

NoOdorInInterval(k) ==
    /\ SiteRows[k + 1].data.odor_specification
    /\ InInterval(_parse_odor_onset(dataset), k) = {}

OdorJustBefore(k) ==
    \E r \in _parse_odor_onset(dataset) :
        StartOf(k) - OdorWindow <= r.ts /\ r.ts < StartOf(k)

OdorMissing(k) == NoOdorInInterval(k) /\ ~OdorJustBefore(k)

OdorEarly(k) == NoOdorInInterval(k) /\ OdorJustBefore(k)

ZeroReward(k) == \A r \in InInterval(dataset.GiveReward, k) : r.value \in {NaN, 0}

RewardWithoutWater(k) == ~ZeroReward(k) /\ InInterval(WaterEvents, k) = {}

\* nothing in the dataset that the scan is to raise on under either setting
NoFatal ==
    /\ Structured
    /\ \A k \in Intervals :
         ~MultipleChoice(k) /\ ~MultipleWater(k) /\ ~OdorMissing(k)
         /\ ~RewardWithoutWater(k)

\* a dataset with no anomalies at all
Clean == NoFatal /\ \A k \in Intervals : ~OdorEarly(k)

\* ------------------------------------------------------------------ claims

\* C1: for a dataset with no anomalies and n >= 1 ActiveSite events, process()
\* returns exactly n - 1 records, record k spanning the k-th ActiveSite
\* timestamp to the next.
C1_CleanRunReturnsAllIntervals ==
    (Done /\ Clean /\ NumSites >= 1) =>
        /\ result = "returned"
        /\ Len(sites) = NumSites - 1
        /\ \A k \in Intervals :
             sites[k + 1].start_time = StartOf(k) /\ sites[k + 1].stop_time = EndOf(k)

\* the patch row (by emission order) in force at the start of interval k
PatchAt(k) == AsofCount(AddCount(dataset.ActivePatch, "patch_count"), StartOf(k))

\* C2: in a single-block dataset whose first two emitted sites lie in the first
\* patch and whose third lies in a second patch, the records carry
\* site_in_patch_index 0, 1, 0 and patch_in_block_index 0, 0, 1.
C2_FirstPatchCountsFromZero ==
    ( /\ Done /\ NoFatal /\ NumSites >= 4
      /\ Len(dataset.Block.rows) = 1
      /\ PatchAt(0) = 0 /\ PatchAt(1) = 0 /\ PatchAt(2) = 1 ) =>
        /\ result = "returned"
        /\ Len(sites) >= 3
        /\ <<sites[1].site_in_patch_index, sites[2].site_in_patch_index,
             sites[3].site_in_patch_index>> = <<0, 1, 0>>
        /\ <<sites[1].patch_in_block_index, sites[2].patch_in_block_index,
             sites[3].patch_in_block_index>> = <<0, 0, 1>>

\* ---- get_closest_from_timestamp
ClosestReturned == q.state = "returned" /\ q.mode = "closest"

Distance(v) == Abs(v - q.target)

\* the index values below and above the target that are equally far from it,
\* with no index value nearer
TiedNeighbours(a, b) ==
    /\ a \in Range(q.index) /\ b \in Range(q.index)
    /\ a < q.target /\ q.target < b
    /\ Distance(a) = Distance(b)
    /\ \A v \in Range(q.index) : Distance(v) >= Distance(a)

\* C3 (as stated): 'closest' returns an index value of minimal distance to the
\* target, and of two equidistant neighbours the smaller (left) one.
C3_ClosestTieToSmaller ==
    ClosestReturned =>
        /\ q.error = "none"
        /\ q.value \in Range(q.index)
        /\ \A v \in Range(q.index) : Distance(q.value) <= Distance(v)
        /\ \A a, b \in Range(q.index) : TiedNeighbours(a, b) => q.value = a

\* C3 (amended): 'closest' returns an index value of minimal distance to the
\* target, and of two equidistant neighbours the larger (right) one.
C3_ClosestTieToLarger ==
    ClosestReturned =>
        /\ q.error = "none"
        /\ q.value \in Range(q.index)
        /\ q.value = q.index[q.idx + 1]
        /\ \A v \in Range(q.index) : Distance(q.value) <= Distance(v)
        /\ \A a, b \in Range(q.index) : TiedNeighbours(a, b) => q.value = b

C3_Witness ==
    /\ ClosestReturned
    /\ \E a, b \in Range(q.index) : TiedNeighbours(a, b) /\ q.value = b

\* ---- the loaded tables
\* C4: process() only reads the tables it loads: when it has returned or
\* raised, the ActiveSite, ActivePatch and Block tables have the rows and
\* columns they had before the call.
C4_TablesUnchanged ==
    Done =>
        tables = [ ActiveSite |-> dataset.ActiveSite,
                   ActivePatch |-> dataset.ActivePatch,
                   Block |-> dataset.Block ]

\* ---- reward resolution
WaterInInterval(k) == InInterval(WaterEvents, k) # {}

ZeroRewardWithPulse(k) ==
    InInterval(dataset.GiveReward, k) # {} /\ ZeroReward(k) /\ WaterInInterval(k)

\* C5: a site whose GiveReward entries all carry a zero or absent payload gets
\* a record with has_reward false and no reward_onset_time, a water pulse in
\* the interval notwithstanding, and no error is raised under either setting.
C5_ZeroRewardIgnoresPulse ==
    (Done /\ NoFatal /\ \E k \in Intervals : ZeroRewardWithPulse(k)) =>
        /\ result = "returned"
        /\ Len(sites) = NumSites - 1
        /\ \A k \in Intervals :
             ZeroRewardWithPulse(k) =>
                 ~sites[k + 1].has_reward /\ sites[k + 1].reward_onset_time = NaN

\* ---- the raise_on_error policy
Anomalous(k) ==
    MultipleChoice(k) \/ MultipleWater(k) \/ OdorMissing(k) \/ RewardWithoutWater(k)

\* the first interval of the scan with a missing odor onset or a missing
\* water pulse, nothing before it or in it breaking an at-most-one assert
FirstMissing(k) ==
    /\ k \in Intervals
    /\ OdorMissing(k) \/ RewardWithoutWater(k)
    /\ ~MultipleChoice(k) /\ ~MultipleWater(k)
    /\ \A j \in 0 .. k - 1 : ~Anomalous(j)

\* C6: with raise_on_error set, process() raises DatasetProcessorError and
\* returns no records once the scan reaches a site that names an odor and has
\* no onset in its interval or the 2 ms before it, or that has non-zero reward
\* metadata and no water pulse.
C6_MissingEventRaises ==
    (Done /\ Structured /\ raise_on_error /\ \E k \in Intervals : FirstMissing(k)) =>
        result = "DatasetProcessorError"

\* C7: with raise_on_error clear, a dataset whose only anomaly is one site
\* without its odor onset yields all n - 1 records, that site's
\* odor_onset_time absent and every other record's onset as in its interval.
C7_MissingOdorDegrades ==
    ( /\ Done /\ Structured /\ ~raise_on_error
      /\ \E k \in Intervals :
            /\ OdorMissing(k)
            /\ \A j \in Intervals :
                 /\ ~MultipleChoice(j) /\ ~MultipleWater(j) /\ ~RewardWithoutWater(j)
                 /\ j # k => ~OdorMissing(j) ) =>
        /\ result = "returned"
        /\ Len(sites) = NumSites - 1
        /\ \A k \in Intervals :
             IF OdorMissing(k) THEN sites[k + 1].odor_onset_time = NaN
             ELSE IF OdorEarly(k) THEN sites[k + 1].odor_onset_time = StartOf(k)
             ELSE IF InInterval(_parse_odor_onset(dataset), k) = {}
                  THEN sites[k + 1].odor_onset_time = NaN
                  ELSE sites[k + 1].odor_onset_time =
                         Min({ r.ts : r \in InInterval(_parse_odor_onset(dataset), k) })

\* C8: if a site interval holds more than one choice-feedback event or more
\* than one water-delivery event, process() ends by raising, whatever
\* raise_on_error is, and returns no list; reaching such an interval, the scan
\* stops there with the AssertionError of line 213 or 216.
C8_MultipleEventsRaise ==
    Done =>
        /\ (\E k \in Intervals : MultipleChoice(k) \/ MultipleWater(k)) =>
               result \notin {"returned", "none"}
        /\ (result \notin {"TypeError", "NotImplementedError"} /\ i \in Intervals
            /\ (MultipleChoice(i) \/ MultipleWater(i))) =>
               (result = "AssertionError" /\ Len(sites) = i)

C8_Witness ==
    /\ Done
    /\ ~raise_on_error
    /\ i \in Intervals
    /\ MultipleChoice(i) \/ MultipleWater(i)
    /\ result = "AssertionError"

\* C9: a site that names an odor, has no onset in its interval and has one in
\* the 2 ms before its start gets its own start time as odor_onset_time, and
\* no error is raised under either setting.
C9_EarlyOdorUsesSiteStart ==
    (Done /\ NoFatal /\ \E k \in Intervals : OdorEarly(k)) =>
        /\ result = "returned"
        /\ Len(sites) = NumSites - 1
        /\ \A k \in Intervals :
             OdorEarly(k) => sites[k + 1].odor_onset_time = StartOf(k)

\* ---- friction
\* the friction-change events at or after the first site's start and before
\* the end of interval k
FrictionUpTo(k) == { r \in FrictionEvents : StartOf(0) <= r.ts /\ r.ts < EndOf(k) }

\* C10: the record of each site carries the value of the last friction-change
\* event in its interval, else the preceding record's friction, and 0 when no
\* interval so far held one.
C10_FrictionIsSticky ==
    (Done /\ NoFatal /\ \E k \in Intervals : InInterval(FrictionEvents, k) # {}) =>
        /\ result = "returned"
        /\ Len(sites) = NumSites - 1
        /\ \A k \in Intervals :
             sites[k + 1].friction =
                 IF FrictionUpTo(k) = {} THEN InitialFriction
                 ELSE LastValue(FrictionUpTo(k))

\* ---- friction set before the second site
\* C11: when every friction-change event is stamped before the start of the
\* site with index 1, all records carry one friction, the value of the last
\* friction-change event.
C11_EarlyFrictionHeldThroughout ==
    ( /\ Done /\ NoFatal /\ NumSites >= 2
      /\ FrictionEvents # {}
      /\ \A r \in FrictionEvents : r.ts < StartOf(1) ) =>
        /\ result = "returned"
        /\ Len(sites) = NumSites - 1
        /\ \A k \in Intervals : sites[k + 1].friction = LastValue(FrictionEvents)

\* ---- the indices of the records
\* C12: in every record after the first, site_in_patch_index is 0 exactly when
\* the record's patch differs from the preceding record's, and one more than
\* the preceding record's otherwise.
C12_SiteInPatchResetsAtPatchChange ==
    (Done /\ NoFatal /\ NumSites >= 3) =>
        /\ result = "returned"
        /\ Len(sites) = NumSites - 1
        /\ \A k \in 2 .. Len(sites) :
             /\ sites[k].site_in_patch_index = 0
                  <=> sites[k].patch_index # sites[k - 1].patch_index
             /\ sites[k].patch_index = sites[k - 1].patch_index =>
                  sites[k].site_in_patch_index = sites[k - 1].site_in_patch_index + 1

\* nothing in the dataset that the scan is to raise on under the setting in
\* force
Recoverable ==
    /\ Structured
    /\ \A k \in Intervals :
         /\ ~MultipleChoice(k) /\ ~MultipleWater(k)
         /\ raise_on_error => (~OdorMissing(k) /\ ~RewardWithoutWater(k))

\* C13: the records returned carry site_index 0, 1, ..., N-1 in list order.
C13_SiteIndexIsPosition ==
    (Done /\ Recoverable /\ NumSites >= 2) =>
        /\ result = "returned"
        /\ Len(sites) = NumSites - 1
        /\ \A k \in 1 .. Len(sites) : sites[k].site_index = k - 1

\* ---- the version gate
Unsupported == ~SemverLess(dataset.version, <<0, 7, 0>>)

EverySiteHasPatch ==
    \A k \in 1 .. NumSites :
        \E p \in Range(dataset.ActivePatch.rows) : p.ts <= SiteRows[k].ts

\* C14 (as stated): for a dataset of version >= 0.7.0 process() fails with
\* NotImplementedError under both settings and returns no records.
C14_UnsupportedVersionNotImplemented ==
    (Done /\ Unsupported) => (result = "NotImplementedError" /\ sites = <<>>)

\* C14 (amended): for a dataset of version >= 0.7.0 process() raises under both
\* settings and builds no record; it raises NotImplementedError whenever every
\* ActiveSite row has an ActivePatch row at or before it.
C14_UnsupportedVersionFails ==
    (Done /\ Unsupported) =>
        /\ result \notin {"returned", "none"}
        /\ sites = <<>>
        /\ EverySiteHasPatch => result = "NotImplementedError"

C14_Witness ==
    /\ Done /\ Unsupported /\ ~raise_on_error
    /\ NumSites >= 2
    /\ result = "NotImplementedError"

\* ---- the optional wait-outcome stream
WaitEvents(k) == InInterval(dataset.WaitRewardOutcome, k)

\* C15: with the WaitRewardOutcome stream absent process() does not fail and
\* every record has has_waited_reward_delay null; with it present a record
\* has null when no wait-outcome event lies in its interval and else the
\* IsSuccessfulWait flag of the first such event.
C15_WaitOutcomeOptional ==
    (Done /\ NoFatal /\ NumSites >= 2) =>
        /\ result = "returned"
        /\ Len(sites) = NumSites - 1
        /\ \A k \in Intervals :
             sites[k + 1].has_waited_reward_delay =
                 IF "WaitRewardOutcome" \in dataset.missing \/ WaitEvents(k) = {}
                 THEN None
                 ELSE (CHOOSE r \in WaitEvents(k) :
                           \A y \in WaitEvents(k) : r.ts <= y.ts).value

\* ---- the patch and block of a record
\* the number of rows of a boundary table stamped at or before t
RowsAtOrBefore(table, t) == Cardinality({ r \in Range(table.rows) : r.ts <= t })

\* C20: a record's patch_index and block_index are the zero-based emission
\* order of the latest ActivePatch and Block events at or before the site's
\* start; a later event, even inside the interval, does not determine them.
C20_PatchAndBlockAtStart ==
    (Done /\ NoFatal /\ NumSites >= 2) =>
        /\ result = "returned"
        /\ Len(sites) = NumSites - 1
        /\ \A k \in Intervals :
             /\ sites[k + 1].patch_index =
                    RowsAtOrBefore(dataset.ActivePatch, StartOf(k)) - 1
             /\ sites[k + 1].block_index =
                    RowsAtOrBefore(dataset.Block, StartOf(k)) - 1

\* ---- the packaging run
ProcessRaised == pc = "done" /\ Propagates(result)

\* C16: in the packaging run, if process() raises, no output has been
\* written: the zarr container and data_process.json are written only after
\* process() has returned the complete trial list, which the container holds.
C16_FailedRunWritesNothing ==
    /\ ProcessRaised => capsule.output = {}
    /\ capsule.output # {} =>
           /\ Returned
           /\ capsule.trials = sites
           /\ "behavior.nwb.zarr" \in capsule.output

C16_Witness ==
    /\ ProcessRaised
    /\ result = "NameError"
    /\ capsule.pc = "failed"
    /\ capsule.output = {}

\* ---- slice_by_index
SliceReturned == call.fn = "slice_by_index" /\ call.state = "returned"

\* C17: slice_by_index(table, start, end) returns exactly the rows with
\* start <= timestamp < end, so for a <= b <= c the slices [a, b) and [b, c)
\* together are the slice [a, c) and share no row, a row stamped exactly b
\* and rows sharing a timestamp included.
C17_AdjacentSlicesPartition ==
    SliceReturned =>
        /\ call.ab = { r \in call.df : call.a <= r.ts /\ r.ts < call.b }
        /\ call.ab \cup call.bc = call.ac
        /\ call.ab \cap call.bc = {}
        /\ \A r \in call.df : r.ts = call.b => r \notin call.ab

C17_Witness ==
    /\ SliceReturned
    /\ call.a < call.b /\ call.b < call.c
    /\ call.ab # {}
    /\ \E r \in call.bc : r.ts = call.b
    /\ \E r, u \in call.df : r # u /\ r.ts = u.ts

\* ---- _parse_odor_onset
OnsetReturned == call.fn = "_parse_odor_onset" /\ call.state = "returned"

Writes == { r \in dataset.EndValveState : r.MessageType = "WRITE" }

\* the WRITE row immediately before r, as a set of at most one row
WriteBefore(r) ==
    { p \in Writes : p.ts < r.ts /\ \A w \in Writes : ~(p.ts < w.ts /\ w.ts < r.ts) }

\* the EndValve0 bits of the rows, in time order, when every row is a WRITE
AllWritesWithValues(v) ==
    /\ Cardinality(dataset.EndValveState) = Len(v)
    /\ \A k \in 1 .. Len(v) :
         [ts |-> k, MessageType |-> "WRITE", value |-> v[k]] \in dataset.EndValveState

\* C18: _parse_odor_onset retains exactly the WRITE rows in which EndValve0
\* is asserted and was not asserted in the WRITE row immediately before (the
\* first row counts as preceded by not-asserted); of the series F,F,T,T,F,T
\* it retains the 3rd and the 6th row only.
C18_OnsetIsRisingEdge ==
    OnsetReturned =>
        /\ call.out \subseteq Writes
        /\ \A r \in Writes :
             r \in call.out <=>
                 (r.value = 1 /\ \A p \in WriteBefore(r) : p.value = 0)
        /\ AllWritesWithValues(<<0, 0, 1, 1, 0, 1>>) =>
               { r.ts : r \in call.out } = {3, 6}

C18_Witness ==
    /\ OnsetReturned
    /\ AllWritesWithValues(<<0, 0, 1, 1, 0, 1>>)
    /\ { r.ts : r \in call.out } = {3, 6}

\* ---- the 'next' and 'previous' lookups
AtOrAbove == { v \in Range(q.index) : v >= q.target }

AtOrBelow == { v \in Range(q.index) : v <= q.target }

\* C19: on a sorted index 'next' returns the smallest index value >= target,
\* or the last index value when there is none, and 'previous' the largest
\* index value <= target, or the first index value when there is none.
C19_NextAndPrevious ==
    (q.state = "returned" /\ q.mode \in {"next", "previous"}) =>
        /\ q.error = "none"
        /\ q.value = q.index[q.idx + 1]
        /\ q.mode = "next" =>
               q.value = IF AtOrAbove # {} THEN Min(AtOrAbove)
                         ELSE q.index[Len(q.index)]
        /\ q.mode = "previous" =>
               q.value = IF AtOrBelow # {} THEN Max(AtOrBelow)
                         ELSE q.index[1]

C19_Witness ==
    /\ q.state = "returned"
    /\ q.mode = "previous"
    /\ Len(q.index) >= 2
    /\ q.target \in Range(q.index)
    /\ q.value = q.target
    /\ q.idx > 0

\* ---- the counters at a block change
\* C21: at every record whose block differs from the preceding record's,
\* patch_in_block_index and site_in_block_index are both 0, also when the
\* patch changes at the same site, while patch_index keeps the patch's global
\* emission-order value.
C21_BlockChangeResets ==
    (Done /\ NoFatal /\ NumSites >= 3) =>
        /\ result = "returned"
        /\ Len(sites) = NumSites - 1
        /\ \A k \in 2 .. Len(sites) :
             sites[k].block_index # sites[k - 1].block_index =>
                 /\ sites[k].patch_in_block_index = 0
                 /\ sites[k].site_in_block_index = 0
                 /\ sites[k].patch_index =
                        RowsAtOrBefore(dataset.ActivePatch, sites[k].start_time) - 1

\* ---- the reward of a record
NonZeroReward(k) == \E r \in InInterval(dataset.GiveReward, k) : r.value \notin {NaN, 0}

\* C22: in every record has_reward is true exactly when reward_onset_time is
\* a timestamp, and then the site's interval holds at least one non-zero
\* reward-metadata entry and exactly one water pulse, whose timestamp is the
\* reward_onset_time.
C22_RewardOnsetIsTheWaterPulse ==
    (Done /\ Recoverable /\ NumSites >= 2) =>
        /\ result = "returned"
        /\ Len(sites) = NumSites - 1
        /\ \A k \in Intervals :
             /\ sites[k + 1].has_reward <=> sites[k + 1].reward_onset_time # NaN
             /\ sites[k + 1].reward_onset_time # NaN =>
                  /\ NonZeroReward(k)
                  /\ Cardinality(InInterval(WaterEvents, k)) = 1
                  /\ \A w \in InInterval(WaterEvents, k) :
                       sites[k + 1].reward_onset_time = w.ts

\* ---- the times of a record
WithinRecord(site, t) == t = NaN \/ (site.start_time <= t /\ t < site.stop_time)

\* C23: in every record each of odor_onset_time, reward_onset_time and
\* choice_cue_time is absent or lies in [start_time, stop_time) of that
\* record, and has_choice is true exactly when choice_cue_time is present.
C23_TimesWithinRecord ==
    (Done /\ Recoverable /\ NumSites >= 2) =>
        /\ result = "returned"
        /\ Len(sites) = NumSites - 1
        /\ \A k \in 1 .. Len(sites) :
             /\ WithinRecord(sites[k], sites[k].odor_onset_time)
             /\ WithinRecord(sites[k], sites[k].reward_onset_time)
             /\ WithinRecord(sites[k], sites[k].choice_cue_time)
             /\ sites[k].has_choice <=> sites[k].choice_cue_time # NaN

\* ---- the per-label counter
EarlierOfLabelInPatch(k) ==
    { j \in 1 .. k - 1 : /\ sites[j].patch_index = sites[k].patch_index
                         /\ sites[j].site_label = sites[k].site_label }

\* C24: a record's site_by_type_in_patch_index is the number of earlier
\* records of the same patch and the same site label; it never exceeds the
\* record's site_in_patch_index, and the counter lookup fails for no label.
C24_SiteByTypeCountsEarlierOfLabel ==
    (Done /\ NoFatal /\ NumSites >= 2) =>
        /\ result = "returned"
        /\ Len(sites) = NumSites - 1
        /\ \A k \in 1 .. Len(sites) :
             /\ sites[k].site_by_type_in_patch_index =
                    Cardinality(EarlierOfLabelInPatch(k))
             /\ sites[k].site_by_type_in_patch_index <= sites[k].site_in_patch_index

====
